---- MODULE Spec2Model ----
(***************************************************************************)
(* Replay agent (Polytube): the upload tracker (internal/uploader), the    *)
(* periodic scan loop and the ordered shutdown of cmd/replay/main.go.      *)
(*                                                                         *)
(* Goroutines modelled: main (recorder start, wait, shutdown), the         *)
(* uploader poller, one goroutine per scheduled uploadFile, and the        *)
(* environment (ticker, FFmpeg writing segments, the HTTP endpoint).       *)
(*                                                                         *)
(* The input listeners (internal/input) and the event sinks                *)
(* (internal/events) have specifications of their own, InputSpec and       *)
(* SinkSpec: logEvent with its lastStates map for each listener type, and  *)
(* LogEvent and Close for each sink backend.                               *)
(* StartSpec begins at the command line (parseFlags), and StopSpec has the  *)
(* Start loops of the listeners and the poller under cancellation.         *)
(* ShipSpec puts the sink behind shutdown's Close and the upload of the    *)
(* events file, JoinSpec has the counting join of sync.WaitGroup,          *)
(* LoggerSpec the internal logger (internal/logger), and WarnSpec the      *)
(* listeners with a sink that shutdown closes under them.                  *)
(***************************************************************************)
EXTENDS Bags, FiniteSets, Integers, Sequences, TLC

----------------------------------------------------------------------------
(* Bounds *)

\* upload goroutines that may be in flight at once
MaxTasks == 3

\* logEvent calls of an input listener in one run
MaxCalls == 4

\* LogEvent calls on an event sink in one run
MaxEvents == 3

\* Close calls on an event sink in one run
MaxCloses == 3

\* capacity of the channel of the asynchronous event logger (4096 in the
\* source), scaled down
ChanCap == 2

\* calls of Info, Warn, Error and Close made on the internal logger
MaxLogCalls == 5

----------------------------------------------------------------------------
(* Files of the data directory *)

DirPath == "data"

\* filepath.Join(dataDir, "internal.log")
InternalLogFilePath == "data/internal.log"

EventsPath == "data/events.parquet"

\* HLS segments written by FFmpeg (output_%03d.ts), in the order written
Segments == <<"data/output_000.ts", "data/output_001.ts">>

TSFiles == {Segments[i] : i \in 1..Len(Segments)}

Paths == TSFiles \cup {EventsPath, InternalLogFilePath}

\* filepath.Ext
Ext(path) ==
    IF path \in TSFiles THEN ".ts"
    ELSE IF path = EventsPath THEN ".parquet"
    ELSE ".log"

\* filepath.Clean: every path here is the result of filepath.Join, which
\* already returns a cleaned path, so cleaning leaves it as it is
Clean(path) == path

\* outcomes of one HTTP exchange or of the local file access before it
Responses == {"2xx", "non2xx", "reqerr", "fileerr"}

Origins == {"ts", "remaining", "log"}

\* an uploadFile goroutine: st is the call it is blocked in
TaskRec == [path : Paths, origin : Origins, st : {"sign", "put"}]

----------------------------------------------------------------------------
VARIABLES
    credsSet,       \* cfg.ApiID # "" /\ cfg.ApiKey # ""
    mainPc,         \* position of the main goroutine
    firstErr,       \* shutdown's firstErr
    ctxDone,        \* the shared context has been cancelled
    pollerPc,       \* position of the uploader poller goroutine
    tickPending,    \* a tick is buffered in ticker.C
    fileState,      \* per path: "absent", "fresh" (modified < 2s ago), "stable"
    UploadedFiles,  \* Uploader.UploadedFiles
    WG,             \* counter of Uploader.WG
    tasks,          \* bag of running uploadFile goroutines
    evLogger,       \* event logger: "open" or "closed" (writer = nil)
    logClosed,      \* Logger.closed
    healthy,        \* the endpoint answers 2xx from now on
    steps,          \* history: shutdown steps taken, in order
    confirmed,      \* history: paths whose GET and then PUT both got 2xx
    failedOnce,     \* history: paths with an upload task that failed
    lastDone,       \* history: path and response of the last task that ended
    logScheduled,   \* history: UploadLogFile started the log's upload task
    listener,       \* the input listener type that is running
    lastStates,     \* the listener's lastStates map
    calls,          \* per worker goroutine: its position in logEvent and the arguments
    nCalls,         \* logEvent calls made
    handed,         \* history: number of events handed to LogEvent, and the last one
    prevObs,        \* history: per id, the last logEvent call that returned
    lastEmitted,    \* history: per id, the value of the last event handed over
    last,           \* history: the logEvent call that returned last
    backend,        \* the event sink type
    sinkFile,       \* the sink's file handle: "open" or "closed"
    sinkWriter,     \* ParquetEventLogger.writer: "set" or "nil"
    stored,         \* events written to the sink's storage, in the order written
    ch,             \* events in the channel of the asynchronous logger
    doneCh,         \* its done channel: "open" or "closed"
    loopPc,         \* its writer goroutine: "select", "drain", "exited"
    nLogged,        \* LogEvent calls made
    closeCalls,     \* Close calls made
    closeRet,       \* result of the last Close call
    closedOk,       \* history: a Close call has returned nil
    sinkPanic,      \* a LogEvent call has panicked
    lastLog,        \* history: the LogEvent call that returned last
    session,        \* history: outcome of CreateSession: "none", "ok", "failed"
    cfg,            \* the command line: which flags are given
    conPc,          \* ConsoleListener.Start: "select", "read", "stopped"
    padPc,          \* GamepadInputListener.Start: "select", "poll", "stopped"
    mnkPc,          \* MNKInputListener.Start: "wait", "stopped"
    mnkLoop,        \* its message loop goroutine: "running", "ended"
    lastEvent,      \* history: EventType and EventLevel of the last event built
    logger          \* the internal Logger: closed flag, file, lines written

replayVars == <<credsSet, mainPc, firstErr, ctxDone, pollerPc, tickPending,
                fileState, UploadedFiles, WG, tasks, evLogger, logClosed, healthy,
                steps, confirmed, failedOnce, lastDone, logScheduled, session>>

inputVars == <<listener, lastStates, calls, nCalls, handed, prevObs,
               lastEmitted, last>>

sinkVars == <<backend, sinkFile, sinkWriter, stored, ch, doneCh, loopPc,
              nLogged, closeCalls, closeRet, closedOk, sinkPanic, lastLog>>

procVars == <<cfg, conPc, padPc, mnkPc, mnkLoop>>

vars == <<replayVars, inputVars, sinkVars, procVars, lastEvent, logger>>

mainVars == <<mainPc, firstErr, ctxDone, evLogger, logClosed, steps>>
pollVars == <<pollerPc, tickPending, session>>
histVars == <<confirmed, failedOnce, lastDone, logScheduled>>
uplVars  == <<UploadedFiles, WG, tasks, histVars>>

----------------------------------------------------------------------------
(* pkg/models: the enumerations of an event *)

EventTypeInputLog == 0

EventTypeConsoleLog == 1

EventTypeRecordingStarted == 2

EventTypes == {EventTypeInputLog, EventTypeConsoleLog, EventTypeRecordingStarted}

\* func (e EventType) String() string
EventTypeString(e) ==
    CASE e = EventTypeInputLog -> "INPUT_LOG"
      [] e = EventTypeConsoleLog -> "CONSOLE_LOG"
      [] e = EventTypeRecordingStarted -> "RECORDING_STARTED"
      [] OTHER -> "UNKNOWN"

EventLevelLog == 0

EventLevelWarning == 1

EventLevelError == 2

EventLevelMouse == 3

EventLevelKeyboard == 4

EventLevelJoypad == 5

EventLevelUknownDevice == 6

EventLevels == {EventLevelLog, EventLevelWarning, EventLevelError, EventLevelMouse,
                EventLevelKeyboard, EventLevelJoypad, EventLevelUknownDevice}

\* func (e EventLevel) String() string
EventLevelString(e) ==
    CASE e = EventLevelLog -> "LOG"
      [] e = EventLevelWarning -> "WARNING"
      [] e = EventLevelError -> "ERROR"
      [] e = EventLevelMouse -> "MOUSE"
      [] e = EventLevelKeyboard -> "KEYBOARD"
      [] e = EventLevelJoypad -> "JOYPAD"
      [] e = EventLevelUknownDevice -> "UNKNOWN_DEVICE"
      [] OTHER -> "UNKNOWN"

\* the EventType and EventLevel fields of a models.Event
Event(type, level) == [type |-> type, level |-> level]

\* no event has been built yet
NoEvent == Event("none", "none")

----------------------------------------------------------------------------
(* Helpers *)

NumTasks == BagCardinality(tasks)

Running == BagToSet(tasks)

\* number of uploadFile goroutines in flight for a path
InFlightIn(bag, path) ==
    LET recs == {t \in BagToSet(bag) : t.path = path}
    IN  BagCardinality([t \in recs |-> bag[t]])

InFlight(path) == InFlightIn(tasks, path)

\* the bag holding one goroutine per path of S, all started by origin
Spawn(S, origin) ==
    SetToBag({[path |-> p, origin |-> origin, st |-> "sign"] : p \in S})

\* filepath.WalkDir(u.DirPath): the regular files present
WalkDir == {p \in Paths : fileState[p] # "absent"}

\* the process has not exited
Alive == mainPc \notin {"exited", "panic"}

----------------------------------------------------------------------------
(* Uploader *)

\* a lookup that never finds the path marked
isUploadedNever(path) == FALSE

isUploaded(path) == UploadedFiles[path]

\* a store that flips the entry instead of setting it
markUploadedToggle(path) == [UploadedFiles EXCEPT ![path] = ~UploadedFiles[path]]

markUploaded(path) == [UploadedFiles EXCEPT ![path] = TRUE]

\* the age test inverted
isStableInverted(path) == fileState[path] = "fresh"

\* isStable: modified more than two seconds ago
isStable(path) == fileState[path] = "stable"

\* UploadTS without the test of the extension
TSEligibleAnyExt ==
    IF ~credsSet THEN {}
    ELSE {p \in WalkDir : ~isUploaded(p) /\ isStable(p)}

\* files for which UploadTS starts an upload
TSEligible ==
    IF ~credsSet THEN {}
    ELSE {p \in WalkDir : Ext(p) = ".ts" /\ ~isUploaded(p) /\ isStable(p)}

\* UploadRemaining without the test for the internal log
RemainingEligibleNoSkip ==
    IF ~credsSet THEN {}
    ELSE {p \in WalkDir : ~isUploaded(p)}

\* files for which UploadRemaining starts an upload
RemainingEligible ==
    IF ~credsSet THEN {}
    ELSE {p \in WalkDir :
            /\ ~(InternalLogFilePath # "" /\ Clean(p) = Clean(InternalLogFilePath))
            /\ ~isUploaded(p)}

\* UploadLogFile without the test of the API id and key
LogEligibleNoCredCheck ==
    IF InternalLogFilePath = "" THEN {}
    ELSE {InternalLogFilePath}

\* files for which UploadLogFile starts an upload
LogEligible ==
    IF InternalLogFilePath = "" \/ ~credsSet THEN {}
    ELSE {InternalLogFilePath}

\* WG.Add(1); go u.uploadFile(path), for every path of S
Schedule(S, origin) ==
    /\ NumTasks + Cardinality(S) <= MaxTasks
    /\ WG' = WG + Cardinality(S)
    /\ tasks' = tasks (+) Spawn(S, origin)

\* a join that does not wait for the counter
WGWaitNoBlock == TRUE

\* WG.Wait returns
WGWait == WG = 0

\* sync.WaitGroup: main is blocked in WG.Wait, the Done of the last running
\* uploadFile brings the counter to zero, and the WG.Add(1) of a scan arrives
\* before that Done has released the waiter: Add panics ("WaitGroup misuse:
\* Add called concurrently with Wait") and the process ends
WGMisuse ==
    /\ mainPc \in {"wait3", "wait6"}
    /\ WG = 1
    /\ pollerPc = "scan"
    /\ TSEligible # {}
    /\ mainPc' = "panic"
    /\ UNCHANGED <<inputVars, sinkVars, procVars, lastEvent, logger, credsSet, firstErr, ctxDone,
                   evLogger, logClosed, steps, pollVars, fileState, uplVars, healthy>>

\* uploadFile going on to the PUT whatever getSignedURL returned
AfterSignPutAlways(t, resp) ==
    /\ tasks' = (tasks (-) SetToBag({t})) (+) SetToBag({[t EXCEPT !.st = "put"]})
    /\ UNCHANGED <<UploadedFiles, WG>>

\* uploadFile marking the path on the error return as well
AfterSignMarkOnError(t, resp) ==
    IF resp = "2xx"
    THEN /\ tasks' = (tasks (-) SetToBag({t})) (+) SetToBag({[t EXCEPT !.st = "put"]})
         /\ UNCHANGED <<UploadedFiles, WG>>
    ELSE /\ tasks' = tasks (-) SetToBag({t})
         /\ WG' = WG - 1
         /\ UploadedFiles' = markUploaded(t.path)

\* uploadFile once getSignedURL has returned: on an error it logs, returns
\* and the deferred WG.Done runs; otherwise it goes on to the PUT
AfterSign(t, resp) ==
    IF resp = "2xx"
    THEN /\ tasks' = (tasks (-) SetToBag({t})) (+) SetToBag({[t EXCEPT !.st = "put"]})
         /\ UNCHANGED <<UploadedFiles, WG>>
    ELSE /\ tasks' = tasks (-) SetToBag({t})
         /\ WG' = WG - 1
         /\ UNCHANGED UploadedFiles

\* uploadFile marking the path whatever the PUT returned
AfterPutMarkAlways(t, resp) ==
    /\ tasks' = tasks (-) SetToBag({t})
    /\ WG' = WG - 1
    /\ UploadedFiles' = markUploaded(t.path)

\* uploadFile once putFileToSignedURL has returned: markUploaded on success
\* only, and the deferred WG.Done on every path
AfterPut(t, resp) ==
    /\ tasks' = tasks (-) SetToBag({t})
    /\ WG' = WG - 1
    /\ UploadedFiles' = IF resp = "2xx" THEN markUploaded(t.path) ELSE UploadedFiles

\* responses the endpoint can give in the current state
Answers == IF healthy THEN {"2xx"} ELSE Responses

\* history of a task that ended with response resp; dup tells that the path
\* was already marked when the task ended
Ended(t, resp) ==
    /\ lastDone' = [path |-> t.path, resp |-> resp, dup |-> isUploaded(t.path)]
    /\ failedOnce' = IF resp = "2xx" THEN failedOnce ELSE failedOnce \cup {t.path}
    /\ confirmed' = IF resp = "2xx" THEN confirmed \cup {t.path} ELSE confirmed

\* uploadFile: getSignedURL returns
TaskSign ==
    /\ Alive
    /\ \E t \in Running : \E resp \in Answers :
         /\ t.st = "sign"
         /\ AfterSign(t, resp)
         /\ IF resp = "2xx"
            THEN UNCHANGED <<confirmed, failedOnce, lastDone>>
            ELSE Ended(t, resp)
    /\ UNCHANGED <<inputVars, sinkVars, procVars, lastEvent, logger, credsSet, mainVars, pollVars, fileState, healthy, logScheduled>>

\* uploadFile: putFileToSignedURL returns
TaskPut ==
    /\ Alive
    /\ \E t \in Running : \E resp \in Answers :
         /\ t.st = "put"
         /\ AfterPut(t, resp)
         /\ Ended(t, resp)
    /\ UNCHANGED <<inputVars, sinkVars, procVars, lastEvent, logger, credsSet, mainVars, pollVars, fileState, healthy, logScheduled>>

----------------------------------------------------------------------------
(* Uploader poller goroutine of startServices *)

\* a tick arrives in ticker.C (buffer of one: a tick is dropped while one waits)
Tick ==
    /\ Alive
    /\ pollerPc \in {"create", "select", "scan"}
    /\ ~tickPending
    /\ tickPending' = TRUE
    /\ UNCHANGED <<inputVars, sinkVars, procVars, lastEvent, logger, credsSet, mainVars, pollerPc, session, fileState, uplVars, healthy>>

\* a poller goroutine that goes on to its loop whatever CreateSession returned
CreateSessionIgnoreError ==
    /\ Alive
    /\ pollerPc = "create"
    /\ \E resp \in Answers \ {"fileerr"} :
         /\ pollerPc' = "select"
         /\ session' = IF resp = "2xx" THEN "ok" ELSE "failed"
    /\ UNCHANGED <<inputVars, sinkVars, procVars, lastEvent, logger, credsSet, mainVars, tickPending, fileState, uplVars, healthy>>

\* upl.CreateSession returns; on an error the goroutine logs it and returns
CreateSession ==
    /\ Alive
    /\ pollerPc = "create"
    /\ \E resp \in Answers \ {"fileerr"} :
         /\ pollerPc' = IF resp = "2xx" THEN "select" ELSE "failed"
         /\ session' = IF resp = "2xx" THEN "ok" ELSE "failed"
    /\ UNCHANGED <<inputVars, sinkVars, procVars, lastEvent, logger, credsSet, mainVars, tickPending, fileState, uplVars, healthy>>

\* select takes case <-ctx.Done()
PollerStop ==
    /\ Alive
    /\ pollerPc = "select"
    /\ ctxDone
    /\ pollerPc' = "stopped"
    /\ UNCHANGED <<inputVars, sinkVars, procVars, lastEvent, logger, credsSet, mainVars, tickPending, session, fileState, uplVars, healthy>>

\* select takes case <-ticker.C
PollerTick ==
    /\ Alive
    /\ pollerPc = "select"
    /\ tickPending
    /\ tickPending' = FALSE
    /\ pollerPc' = "scan"
    /\ UNCHANGED <<inputVars, sinkVars, procVars, lastEvent, logger, credsSet, mainVars, session, fileState, uplVars, healthy>>

\* upl.UploadTS()
UploadTS ==
    /\ Alive
    /\ pollerPc = "scan"
    /\ Schedule(TSEligible, "ts")
    /\ pollerPc' = "select"
    /\ UNCHANGED <<inputVars, sinkVars, procVars, lastEvent, logger, credsSet, mainVars, tickPending, session, fileState,
                   UploadedFiles, histVars, healthy>>

----------------------------------------------------------------------------
(* Environment: FFmpeg and the clock *)

FFmpegRunning == mainPc \in {"logStarted", "recWait"}

\* FFmpeg opens its next segment file
NewSegment ==
    /\ FFmpegRunning
    /\ \E i \in 1..Len(Segments) :
         /\ fileState[Segments[i]] = "absent"
         /\ \A j \in 1..(i - 1) : fileState[Segments[j]] # "absent"
         /\ fileState' = [fileState EXCEPT ![Segments[i]] = "fresh"]
    /\ UNCHANGED <<inputVars, sinkVars, procVars, lastEvent, logger, credsSet, mainVars, pollVars, uplVars, healthy>>

\* a segment was last written more than two seconds ago
Age ==
    /\ Alive
    /\ \E p \in TSFiles :
         /\ fileState[p] = "fresh"
         /\ fileState' = [fileState EXCEPT ![p] = "stable"]
    /\ UNCHANGED <<inputVars, sinkVars, procVars, lastEvent, logger, credsSet, mainVars, pollVars, uplVars, healthy>>

\* the event file or the internal log was last written more than two
\* seconds ago
AgeFile ==
    /\ Alive
    /\ \E p \in Paths \ TSFiles :
         /\ fileState[p] = "fresh"
         /\ fileState' = [fileState EXCEPT ![p] = "stable"]
    /\ UNCHANGED <<inputVars, sinkVars, procVars, lastEvent, logger, credsSet, mainVars, pollVars, uplVars, healthy>>

\* the endpoint answers 2xx to every request from now on
Recover ==
    /\ Alive
    /\ ~healthy
    /\ healthy' = TRUE
    /\ UNCHANGED <<inputVars, sinkVars, procVars, lastEvent, logger, credsSet, mainVars, pollVars, fileState, uplVars>>

----------------------------------------------------------------------------
(* main goroutine *)

\* a catch that keeps the error that occurred last
catchLast(err) == err

\* shutdown's catch
catch(err) == IF firstErr = "nil" THEN err ELSE firstErr

\* the order the comment above shutdown gives: logger closed before the uploads
ShutdownOrderOfComment ==
    <<"cancel", "closeEventLogger", "closeInternalLogger", "UploadRemaining",
      "wait3", "UploadLogFile", "wait6">>

\* an order that closes the logger before the join on the uploads
ShutdownOrderCloseBeforeJoin ==
    <<"cancel", "closeEventLogger", "UploadRemaining", "closeInternalLogger",
      "wait3", "UploadLogFile", "wait6">>

\* the statements of shutdown, in program order
ShutdownOrder ==
    <<"cancel", "closeEventLogger", "UploadRemaining", "wait3",
      "closeInternalLogger", "UploadLogFile", "wait6">>

\* the statement after pc in shutdown; after the last one shutdown returns
AfterStep(pc) ==
    LET i == CHOOSE k \in 1..Len(ShutdownOrder) : ShutdownOrder[k] = pc
    IN  IF i = Len(ShutdownOrder) THEN "returned" ELSE ShutdownOrder[i + 1]

\* svcs.rec.Start(); on an error main runs shutdown and exits
RecStart ==
    /\ mainPc = "recStart"
    /\ \E ok \in BOOLEAN :
         mainPc' = IF ok THEN "logStarted" ELSE ShutdownOrder[1]
    /\ UNCHANGED <<inputVars, sinkVars, procVars, lastEvent, logger, credsSet, firstErr, ctxDone, evLogger, logClosed, steps,
                   pollVars, fileState, uplVars, healthy>>

\* svcs.rec.LogRecordingStartedEvent(), which always returns nil
LogRecordingStartedEvent ==
    /\ mainPc = "logStarted"
    /\ mainPc' = "recWait"
    /\ lastEvent' = Event(EventTypeString(EventTypeRecordingStarted), "")
    /\ UNCHANGED <<inputVars, sinkVars, procVars, logger, credsSet, firstErr, ctxDone, evLogger, logClosed, steps,
                   pollVars, fileState, uplVars, healthy>>

\* svcs.rec.Wait() returns: FFmpeg has exited
RecWait ==
    /\ mainPc = "recWait"
    /\ mainPc' = ShutdownOrder[1]
    /\ UNCHANGED <<inputVars, sinkVars, procVars, lastEvent, logger, credsSet, firstErr, ctxDone, evLogger, logClosed, steps,
                   pollVars, fileState, uplVars, healthy>>

\* shutdown 1) svcs.cancel()
Cancel ==
    /\ mainPc = "cancel"
    /\ ctxDone' = TRUE
    /\ steps' = Append(steps, mainPc)
    /\ mainPc' = AfterStep(mainPc)
    /\ UNCHANGED <<inputVars, sinkVars, procVars, lastEvent, logger, credsSet, firstErr, evLogger, logClosed,
                   pollVars, fileState, uplVars, healthy>>

\* shutdown 2) svcs.eventLogger.Close()
CloseEventLogger ==
    /\ mainPc = "closeEventLogger"
    /\ \E ok \in BOOLEAN :
         IF ok
         THEN evLogger' = "closed" /\ UNCHANGED firstErr
         ELSE firstErr' = catch("close event logger") /\ UNCHANGED evLogger
    /\ steps' = Append(steps, mainPc)
    /\ mainPc' = AfterStep(mainPc)
    /\ UNCHANGED <<inputVars, sinkVars, procVars, lastEvent, logger, credsSet, ctxDone, logClosed,
                   pollVars, fileState, uplVars, healthy>>

\* shutdown 3) svcs.upl.UploadRemaining()
UploadRemaining ==
    /\ mainPc = "UploadRemaining"
    /\ Schedule(RemainingEligible, "remaining")
    /\ steps' = Append(steps, mainPc)
    /\ mainPc' = AfterStep(mainPc)
    /\ UNCHANGED <<inputVars, sinkVars, procVars, lastEvent, logger, credsSet, firstErr, ctxDone, evLogger, logClosed,
                   pollVars, fileState, UploadedFiles, histVars, healthy>>

\* shutdown 3) svcs.upl.WG.Wait() returns
Wait3 ==
    /\ mainPc = "wait3"
    /\ WGWait
    /\ steps' = Append(steps, mainPc)
    /\ mainPc' = AfterStep(mainPc)
    /\ UNCHANGED <<inputVars, sinkVars, procVars, lastEvent, logger, credsSet, firstErr, ctxDone, evLogger, logClosed,
                   pollVars, fileState, uplVars, healthy>>

\* shutdown 4) svcs.internalLogger.Close()
CloseInternalLogger ==
    /\ mainPc = "closeInternalLogger"
    /\ logClosed' = TRUE
    /\ \E ok \in BOOLEAN :
         firstErr' = IF ok THEN firstErr ELSE catch("close internal logger")
    /\ steps' = Append(steps, mainPc)
    /\ mainPc' = AfterStep(mainPc)
    /\ UNCHANGED <<inputVars, sinkVars, procVars, lastEvent, logger, credsSet, ctxDone, evLogger,
                   pollVars, fileState, uplVars, healthy>>

\* shutdown 5) svcs.upl.UploadLogFile()
UploadLogFile ==
    /\ mainPc = "UploadLogFile"
    /\ Schedule(LogEligible, "log")
    /\ logScheduled' = (logScheduled \/ LogEligible # {})
    /\ steps' = Append(steps, mainPc)
    /\ mainPc' = AfterStep(mainPc)
    /\ UNCHANGED <<inputVars, sinkVars, procVars, lastEvent, logger, credsSet, firstErr, ctxDone, evLogger, logClosed,
                   pollVars, fileState, UploadedFiles, confirmed, failedOnce,
                   lastDone, healthy>>

\* shutdown 5) svcs.upl.WG.Wait() returns, and shutdown returns firstErr
Wait6 ==
    /\ mainPc = "wait6"
    /\ WGWait
    /\ steps' = Append(steps, mainPc)
    /\ mainPc' = AfterStep(mainPc)
    /\ UNCHANGED <<inputVars, sinkVars, procVars, lastEvent, logger, credsSet, firstErr, ctxDone, evLogger, logClosed,
                   pollVars, fileState, uplVars, healthy>>

\* main returns (or calls os.Exit) after shutdown: the process ends and
\* takes every goroutine still running with it
Exit ==
    /\ mainPc = "returned"
    /\ mainPc' = "exited"
    /\ UNCHANGED <<inputVars, sinkVars, procVars, lastEvent, logger, credsSet, firstErr, ctxDone, evLogger, logClosed, steps,
                   pollVars, fileState, uplVars, healthy>>

----------------------------------------------------------------------------
(* Internal logger: write and Close *)

\* the severities of Info, Warn and Error
LogLevels == {"INFO", "WARN", "ERROR"}

\* NewLogger: the file is open and nothing has been written; lines counts
\* the lines in the file, stderr the lines on the error stream, and the
\* rest is the history of the calls
NewLogger ==
    [closed |-> FALSE, file |-> "open", lines |-> 0, stderr |-> 0,
     writes |-> 0, closes |-> 0, ret |-> "none", level |-> "none"]

LoggerCalls == logger.writes + logger.closes

\* the logger after write(level, msg): on a closed logger the line goes to
\* os.Stderr; else WriteString and Flush, whose error (~ok) is printed to
\* os.Stderr
LogLine(lg, level, ok) ==
    [lg EXCEPT !.writes = @ + 1, !.level = level,
               !.lines = IF ~lg.closed /\ ok THEN @ + 1 ELSE @,
               !.stderr = IF ~lg.closed /\ ok THEN @ ELSE @ + 1]

\* a write that does not look at the closed flag
LoggerWriteAnyway ==
    /\ LoggerCalls < MaxLogCalls
    /\ \E level \in LogLevels : \E ok \in BOOLEAN :
         logger' = [logger EXCEPT !.writes = @ + 1, !.level = level,
                                  !.lines = IF ok THEN @ + 1 ELSE @,
                                  !.stderr = IF ok THEN @ ELSE @ + 1]
    /\ UNCHANGED <<replayVars, inputVars, sinkVars, procVars, lastEvent>>

\* a call of Info, Warn or Error
LoggerWrite ==
    /\ LoggerCalls < MaxLogCalls
    /\ \E level \in LogLevels : \E ok \in BOOLEAN :
         logger' = LogLine(logger, level, ok)
    /\ UNCHANGED <<replayVars, inputVars, sinkVars, procVars, lastEvent>>

\* Close: nil on a closed logger; else the flag is set, then Flush and
\* File.Close, and the first error of the two (~ok) is returned with the
\* file left as it is
LoggerClose ==
    /\ LoggerCalls < MaxLogCalls
    /\ \E ok \in BOOLEAN :
         logger' = IF logger.closed
                   THEN [logger EXCEPT !.closes = @ + 1, !.ret = "nil"]
                   ELSE [logger EXCEPT !.closes = @ + 1, !.closed = TRUE,
                                       !.file = IF ok THEN "closed" ELSE @,
                                       !.ret = IF ok THEN "nil" ELSE "error"]
    /\ UNCHANGED <<replayVars, inputVars, sinkVars, procVars, lastEvent>>

----------------------------------------------------------------------------
(* Input listeners: logEvent and its last-value cache *)

\* GamepadInputListener, MNKInputListener and the three InputListener of
\* internal/input/input_listener.go (GLFW with XInput, hook channels, GLFW)
Listeners == {"Gamepad", "MNK", "GLFWXInput", "Hook", "GLFW"}

\* the goroutines that call logEvent of listener l: the hook variant starts
\* listenKeyboard and listenMouse with go and runs listenJoysticks itself,
\* every other listener calls logEvent from the goroutine that runs Start
Workers(l) ==
    IF l = "Hook" THEN {"listenKeyboard", "listenMouse", "listenJoysticks"}
    ELSE {"Start"}

\* float64 values in hundredths: released and pressed
DigitalValues == {0, 100}

\* float64 values in hundredths: positions of an axis or a trigger
AxisValues == {0, 2, 10, 50}

\* the threshold constant of listener l, in hundredths
ANALOG_THRESHOLD(l) ==
    CASE l = "Gamepad" -> 10
      [] l = "GLFW" -> 50
      [] l = "GLFWXInput" -> 5
      [] OTHER -> 0

\* the arguments of one logEvent call; analog tells that the device value
\* is an axis or trigger position
Sig(level, key, value, analog) ==
    [level |-> level, key |-> key, value |-> value, analog |-> analog]

Digital(level, key) == {Sig(level, key, v, FALSE) : v \in DigitalValues}

Axis(level, key) == {Sig(level, key, v, TRUE) : v \in AxisValues}

\* logEvent calls that worker w of listener l makes, and a call with the
\* empty key that its signature allows
Signals(l, w) ==
    CASE l = "Gamepad" ->
            Axis("JOYPAD", "LeftStickX") \cup Digital("JOYPAD", "A")
               \cup {Sig("JOYPAD", "", 100, FALSE)}
      [] l = "MNK" ->
            Digital("KEYBOARD", "VK_A") \cup Digital("MOUSE", "VK_LBUTTON")
               \cup {Sig("KEYBOARD", "", 100, FALSE)}
      [] l = "GLFWXInput" ->
            Digital("KEYBOARD", "A") \cup Axis("JOYPAD", "XInput_0_Axis_LeftX")
               \cup {Sig("KEYBOARD", "", 100, FALSE)}
      [] l = "GLFW" ->
            Digital("KEYBOARD", "A") \cup Axis("JOYPAD", "LeftStickX")
               \cup {Sig("KEYBOARD", "", 100, FALSE)}
      [] OTHER ->
            CASE w = "listenKeyboard" ->
                    Digital("KEYBOARD", "A") \cup {Sig("KEYBOARD", "", 100, FALSE)}
              [] w = "listenMouse" -> Digital("MOUSE", "LeftButton")
              [] OTHER -> Digital("JOYPAD", "Button0")

\* id := level.String() + ":" + key
Id(sig) == <<sig.level, sig.key>>

\* the ids that listener l can look up in its map
Ids(l) == {Id(sig) : sig \in UNION {Signals(l, w) : w \in Workers(l)}}

\* a map lookup prev, ok := lastStates[id]: prev is 0 when the key is missing
Absent == [ok |-> FALSE, prev |-> 0]

Stored(value) == [ok |-> TRUE, prev |-> value]

Abs(x) == IF x < 0 THEN 0 - x ELSE x

\* a worker that is not in logEvent
NoSig == Sig("", "", 0, FALSE)

Idle == [pc |-> "idle", sig |-> NoSig]

\* logEvent never returning on an empty key
KeyRejectedNever(key) == FALSE

\* if key == "" { return }
KeyRejected(key) == key = ""

\* MNKInputListener has no lastStates map
UsesCache(l) == l # "MNK"

isAnalogKey(key) == key \in {"LeftX", "LeftY", "RightX", "RightY", "LT", "RT"}

\* the test of logEvent without its guard on ok
SkipIgnoringOk(l, sig, got) ==
    CASE l \in {"Gamepad", "GLFW"} ->
            \/ sig.level = "JOYPAD" /\ Abs(got.prev - sig.value) < ANALOG_THRESHOLD(l)
            \/ got.prev = sig.value
      [] l = "GLFWXInput" ->
            IF sig.level = "JOYPAD" /\ isAnalogKey(sig.key)
            THEN Abs(got.prev - sig.value) < ANALOG_THRESHOLD(l)
            ELSE got.prev = sig.value
      [] OTHER -> got.prev = sig.value

\* logEvent returns after the lookup without storing or logging
Skip(l, sig, got) ==
    /\ got.ok
    /\ CASE l \in {"Gamepad", "GLFW"} ->
               \/ sig.level = "JOYPAD" /\ Abs(got.prev - sig.value) < ANALOG_THRESHOLD(l)
               \/ got.prev = sig.value
         [] l = "GLFWXInput" ->
               IF sig.level = "JOYPAD" /\ isAnalogKey(sig.key)
               THEN Abs(got.prev - sig.value) < ANALOG_THRESHOLD(l)
               ELSE got.prev = sig.value
         [] OTHER -> got.prev = sig.value

\* another goroutine is about to store into the map: the lookup of w is not
\* ordered with that store
ReadRaces(w) == \E o \in Workers(listener) \ {w} : calls[o].pc = "write"

\* another goroutine is about to look up or store: the store of w is not
\* ordered with that access
WriteRaces(w) ==
    \E o \in Workers(listener) \ {w} : calls[o].pc \in {"read", "write"}

\* what an unordered lookup can return: the entry, or a miss
Lookups(w, id) ==
    IF ReadRaces(w) THEN {lastStates[id], Absent} ELSE {lastStates[id]}

\* history of a logEvent call that has returned: emitted tells that it
\* called LogEvent, failed that LogEvent returned an error
CompletedWith(sig, emitted, failed) ==
    /\ prevObs' = [prevObs EXCEPT ![Id(sig)] =
                      [seen |-> TRUE, value |-> sig.value, emitted |-> emitted,
                       failed |-> failed]]
    /\ last' = [sig |-> sig, emitted |-> emitted, before |-> prevObs[Id(sig)],
                emittedBefore |-> lastEmitted[Id(sig)], n |-> last.n + 1]

\* history of a logEvent call that has returned with no error from the sink
Completed(sig, emitted) == CompletedWith(sig, emitted, FALSE)

\* a device signal arrives and the worker calls logEvent, which returns at
\* once on an empty key
LogEventCall ==
    /\ nCalls < MaxCalls
    /\ \E w \in Workers(listener) : \E sig \in Signals(listener, w) :
         /\ calls[w].pc = "idle"
         /\ nCalls' = nCalls + 1
         /\ IF KeyRejected(sig.key)
            THEN /\ Completed(sig, FALSE)
                 /\ UNCHANGED calls
            ELSE /\ calls' = [calls EXCEPT ![w] =
                       [pc |-> IF UsesCache(listener) THEN "read" ELSE "handoff",
                        sig |-> sig]]
                 /\ UNCHANGED <<prevObs, last>>
    /\ UNCHANGED <<replayVars, sinkVars, procVars, lastEvent, logger, listener, lastStates, lastEmitted, handed>>

\* a logEvent that stores the observed value before it returns on a skip
CacheReadStoreOnSkip ==
    /\ \E w \in Workers(listener) :
         /\ calls[w].pc = "read"
         /\ \E got \in Lookups(w, Id(calls[w].sig)) :
              IF Skip(listener, calls[w].sig, got)
              THEN /\ calls' = [calls EXCEPT ![w] = Idle]
                   /\ Completed(calls[w].sig, FALSE)
                   /\ lastStates' = [lastStates EXCEPT ![Id(calls[w].sig)] =
                                        Stored(calls[w].sig.value)]
              ELSE /\ calls' = [calls EXCEPT ![w].pc = "write"]
                   /\ UNCHANGED <<prevObs, last, lastStates>>
    /\ UNCHANGED <<replayVars, sinkVars, procVars, lastEvent, logger, listener, lastEmitted, handed, nCalls>>

\* prev, ok := l.lastStates[id] and the threshold and change tests
CacheRead ==
    /\ \E w \in Workers(listener) :
         /\ calls[w].pc = "read"
         /\ \E got \in Lookups(w, Id(calls[w].sig)) :
              IF Skip(listener, calls[w].sig, got)
              THEN /\ calls' = [calls EXCEPT ![w] = Idle]
                   /\ Completed(calls[w].sig, FALSE)
              ELSE /\ calls' = [calls EXCEPT ![w].pc = "write"]
                   /\ UNCHANGED <<prevObs, last>>
    /\ UNCHANGED <<replayVars, sinkVars, procVars, lastEvent, logger, listener, lastStates, lastEmitted, handed, nCalls>>

\* l.lastStates[id] = value; a store that is not ordered with another access
\* may be lost
CacheWrite ==
    /\ \E w \in Workers(listener) :
         /\ calls[w].pc = "write"
         /\ \E kept \in (IF WriteRaces(w) THEN BOOLEAN ELSE {TRUE}) :
              lastStates' = IF kept
                            THEN [lastStates EXCEPT ![Id(calls[w].sig)] =
                                     Stored(calls[w].sig.value)]
                            ELSE lastStates
         /\ calls' = [calls EXCEPT ![w].pc = "handoff"]
    /\ UNCHANGED <<replayVars, sinkVars, procVars, lastEvent, logger, listener, lastEmitted, handed, nCalls, prevObs, last>>

\* the runtime detects the unordered map accesses and ends the process
\* (fatal error: concurrent map writes)
MapFault ==
    /\ \E w \in Workers(listener) : calls[w].pc = "write" /\ WriteRaces(w)
    /\ calls' = [w \in Workers(listener) |-> [pc |-> "dead", sig |-> NoSig]]
    /\ UNCHANGED <<replayVars, sinkVars, procVars, lastEvent, logger, listener, lastStates, lastEmitted, handed, nCalls, prevObs, last>>

\* what LogEvent returns to a listener: an error once the file of the sink
\* is closed, nil while it is open
LogEventOk == sinkFile = "open"

\* l.EventLogger.LogEvent(event), whose error goes to l.Logger.Warn, and
\* logEvent returns
Handoff ==
    /\ \E w \in Workers(listener) : \E ok \in {LogEventOk} :
         /\ calls[w].pc = "handoff"
         /\ handed' = [n |-> handed.n + 1, ev |-> calls[w].sig, err |-> ~ok]
         /\ lastEmitted' = [lastEmitted EXCEPT ![Id(calls[w].sig)] =
                               Stored(calls[w].sig.value)]
         /\ CompletedWith(calls[w].sig, TRUE, ~ok)
         /\ calls' = [calls EXCEPT ![w] = Idle]
         /\ lastEvent' = Event(EventTypeString(EventTypeInputLog), calls[w].sig.level)
         /\ \E wok \in BOOLEAN :
              logger' = IF ok THEN logger ELSE LogLine(logger, "WARN", wok)
    /\ UNCHANGED <<replayVars, sinkVars, procVars, listener, lastStates, nCalls>>

\* Start: l.lastStates = make(map[string]float64)
InitInput(l) ==
    /\ listener = l
    /\ lastStates = [id \in Ids(l) |-> Absent]
    /\ calls = [w \in Workers(l) |-> Idle]
    /\ nCalls = 0
    /\ prevObs = [id \in Ids(l) |-> [seen |-> FALSE, value |-> 0, emitted |-> FALSE, failed |-> FALSE]]
    /\ lastEmitted = [id \in Ids(l) |-> Absent]
    /\ last = [sig |-> NoSig, emitted |-> FALSE,
               before |-> [seen |-> FALSE, value |-> 0, emitted |-> FALSE, failed |-> FALSE],
               emittedBefore |-> Absent, n |-> 0]
    /\ handed = [n |-> 0, ev |-> NoSig, err |-> FALSE]

----------------------------------------------------------------------------
(* Event sinks: LogEvent and Close of each backend *)

\* EventLogger (ndjson), ParquetEventLogger (synchronous), ArrowEventLogger
\* and ParquetEventLogger with a channel and a writer goroutine
Backends == {"NDJSON", "Parquet", "Arrow", "Async"}

\* the sink can take no further call: the process has panicked
SinkUp == closeRet # "panic" /\ ~sinkPanic

\* the number of the event that the next LogEvent call submits
NextEvent == nLogged + 1

\* history of a LogEvent call that has returned ret: full tells that the
\* channel held ChanCap events at the call, closed that Close had been called
Logged(ret) ==
    lastLog' = [n |-> NextEvent, ret |-> ret, full |-> Len(ch) = ChanCap,
                closed |-> closeCalls > 0]

\* LogEvent of a synchronous backend: the row is written when the file is
\* open and the write succeeds (ok), else the error is returned; the Parquet
\* logger calls Write through the writer pointer that Close has set to nil
SyncLogEvent ==
    /\ backend # "Async"
    /\ IF backend = "Parquet" /\ sinkWriter = "nil"
       THEN /\ sinkPanic' = TRUE
            /\ Logged("panic")
            /\ UNCHANGED stored
       ELSE /\ \E ok \in BOOLEAN :
                 IF sinkFile = "open" /\ ok
                 THEN stored' = Append(stored, NextEvent) /\ Logged("nil")
                 ELSE UNCHANGED stored /\ Logged("error")
            /\ UNCHANGED sinkPanic
    /\ UNCHANGED ch

\* a send that puts the event in the channel whatever it holds
TrySendAlways(q, e) == Append(q, e)

\* select { case l.ch <- e: default: }
TrySend(q, e) == IF Len(q) < ChanCap THEN Append(q, e) ELSE q

\* LogEvent with a plain send l.ch <- e, which waits while the channel is full
AsyncLogEventBlocking ==
    /\ backend = "Async"
    /\ Len(ch) < ChanCap
    /\ ch' = Append(ch, NextEvent)
    /\ Logged("nil")
    /\ UNCHANGED <<stored, sinkPanic>>

\* LogEvent of the channel backend, which returns nothing
AsyncLogEvent ==
    /\ backend = "Async"
    /\ ch' = TrySend(ch, NextEvent)
    /\ Logged("nil")
    /\ UNCHANGED <<stored, sinkPanic>>

\* a producer calls LogEvent
SinkLogEvent ==
    /\ SinkUp
    /\ nLogged < MaxEvents
    /\ nLogged' = nLogged + 1
    /\ SyncLogEvent \/ AsyncLogEvent
    /\ UNCHANGED <<replayVars, inputVars, procVars, lastEvent, logger, backend, sinkFile, sinkWriter, doneCh, loopPc,
                   closeCalls, closeRet, closedOk>>

\* a receive that takes the event sent last
LoopWriteLast ==
    /\ SinkUp
    /\ backend = "Async"
    /\ loopPc \in {"select", "drain"}
    /\ ch # <<>>
    /\ ch' = SubSeq(ch, 1, Len(ch) - 1)
    /\ \E ok \in BOOLEAN :
         stored' = IF ok THEN Append(stored, ch[Len(ch)]) ELSE stored
    /\ UNCHANGED <<replayVars, inputVars, procVars, lastEvent, logger, backend, sinkFile, sinkWriter, doneCh, loopPc, nLogged,
                   closeCalls, closeRet, closedOk, sinkPanic, lastLog>>

\* loop: case e := <-l.ch, in the select or in the drain, and
\* _ = l.writer.Write(e), whose error (~ok) is dropped with the event
LoopWrite ==
    /\ SinkUp
    /\ backend = "Async"
    /\ loopPc \in {"select", "drain"}
    /\ ch # <<>>
    /\ ch' = Tail(ch)
    /\ \E ok \in BOOLEAN :
         stored' = IF ok THEN Append(stored, Head(ch)) ELSE stored
    /\ UNCHANGED <<replayVars, inputVars, procVars, lastEvent, logger, backend, sinkFile, sinkWriter, doneCh, loopPc, nLogged,
                   closeCalls, closeRet, closedOk, sinkPanic, lastLog>>

\* loop: case <-l.done
LoopDone ==
    /\ SinkUp
    /\ backend = "Async"
    /\ loopPc = "select"
    /\ doneCh = "closed"
    /\ loopPc' = "drain"
    /\ UNCHANGED <<replayVars, inputVars, procVars, lastEvent, logger, backend, sinkFile, sinkWriter, stored, ch, doneCh, nLogged,
                   closeCalls, closeRet, closedOk, sinkPanic, lastLog>>

\* loop: the default case of the drain: Flush, WriteStop, file.Close, return
LoopExit ==
    /\ SinkUp
    /\ backend = "Async"
    /\ loopPc = "drain"
    /\ ch = <<>>
    /\ loopPc' = "exited"
    /\ sinkFile' = "closed"
    /\ UNCHANGED <<replayVars, inputVars, procVars, lastEvent, logger, backend, sinkWriter, stored, ch, doneCh, nLogged,
                   closeCalls, closeRet, closedOk, sinkPanic, lastLog>>

\* Close of EventLogger: Flush, then File.Close, which returns an error on
\* a file that is already closed
CloseNDJSON(ok) ==
    /\ sinkFile' = IF ok THEN "closed" ELSE sinkFile
    /\ closeRet' = IF ok /\ sinkFile = "open" THEN "nil" ELSE "error"
    /\ UNCHANGED <<sinkWriter, doneCh>>

\* Close of ParquetEventLogger: nil when the writer pointer is nil, else
\* WriteStop and PFile.Close, and the pointer is set to nil when both succeed
CloseParquet(ok) ==
    /\ IF sinkWriter = "nil"
       THEN /\ closeRet' = "nil"
            /\ UNCHANGED <<sinkFile, sinkWriter>>
       ELSE /\ sinkFile' = IF ok THEN "closed" ELSE sinkFile
            /\ sinkWriter' = IF ok /\ sinkFile = "open" THEN "nil" ELSE sinkWriter
            /\ closeRet' = IF ok /\ sinkFile = "open" THEN "nil" ELSE "error"
    /\ UNCHANGED doneCh

\* Close of ArrowEventLogger: writer.Close, then file.Close, which returns
\* an error on a file that is already closed
CloseArrow(ok) ==
    /\ sinkFile' = IF ok THEN "closed" ELSE sinkFile
    /\ closeRet' = IF ok /\ sinkFile = "open" THEN "nil" ELSE "error"
    /\ UNCHANGED <<sinkWriter, doneCh>>

\* Close of the channel backend: close(l.done), which panics on a channel
\* that is already closed
CloseAsync ==
    /\ doneCh' = "closed"
    /\ closeRet' = IF doneCh = "closed" THEN "panic" ELSE "nil"
    /\ UNCHANGED <<sinkFile, sinkWriter>>

\* a caller calls Close; ok tells that the writer and the file accept the
\* flush and the close
SinkClose ==
    /\ SinkUp
    /\ closeCalls < MaxCloses
    /\ closeCalls' = closeCalls + 1
    /\ \E ok \in BOOLEAN :
         CASE backend = "NDJSON" -> CloseNDJSON(ok)
           [] backend = "Parquet" -> CloseParquet(ok)
           [] backend = "Arrow" -> CloseArrow(ok)
           [] OTHER -> CloseAsync
    /\ closedOk' = (closedOk \/ closeRet' = "nil")
    /\ UNCHANGED <<replayVars, inputVars, procVars, lastEvent, logger, backend, stored, ch, loopPc, nLogged, sinkPanic, lastLog>>

\* the constructor of backend b
InitSink(b) ==
    /\ backend = b
    /\ sinkFile = "open"
    /\ sinkWriter = "set"
    /\ stored = <<>>
    /\ ch = <<>>
    /\ doneCh = "open"
    /\ loopPc = "select"
    /\ nLogged = 0
    /\ closeCalls = 0
    /\ closeRet = "none"
    /\ closedOk = FALSE
    /\ sinkPanic = FALSE
    /\ lastLog = [n |-> 0, ret |-> "none", full |-> FALSE, closed |-> FALSE]

----------------------------------------------------------------------------
(* Start-up: parseFlags and main up to startServices *)

\* command lines: for each of the flags, whether it is given a value
Cfgs == [title : BOOLEAN, out : BOOLEAN, apiId : BOOLEAN, apiKey : BOOLEAN,
         load : BOOLEAN]

\* the flags that parseFlags reports as missing
missing(c) ==
    IF c.load
    THEN {f \in {"--out"} : ~c.out}
    ELSE {f \in {"--out"} : ~c.out} \cup {f \in {"--title"} : ~c.title}

\* main from parseFlags to the return of startServices: os.Exit(2) when a
\* flag is reported missing, os.Exit(1) when a directory, FFmpeg or a service
\* cannot be set up (~ok), os.Exit(0) after --load; otherwise the listeners
\* and the poller are started and main goes on to rec.Start
ParseFlags ==
    /\ mainPc = "parseFlags"
    /\ \E ok \in BOOLEAN :
         mainPc' = IF missing(cfg) # {} \/ ~ok \/ cfg.load THEN "exited" ELSE "recStart"
    /\ UNCHANGED <<inputVars, sinkVars, procVars, lastEvent, logger, credsSet, firstErr, ctxDone, evLogger, logClosed,
                   steps, pollVars, fileState, uplVars, healthy>>

----------------------------------------------------------------------------
(* Producers: the Start loops of the listeners *)

\* ConsoleListener.Start: select with case <-ctx.Done() and a default case
\* that calls reader.ReadString
ConSelect ==
    /\ conPc = "select"
    /\ conPc' = IF ctxDone THEN "stopped" ELSE "read"
    /\ UNCHANGED <<replayVars, inputVars, sinkVars, lastEvent, logger, cfg, padPc, mnkPc, mnkLoop>>

\* a line arrives on stdin: ReadString returns it and the loop goes round
StdinLine ==
    /\ conPc = "read"
    /\ conPc' = "select"
    /\ lastEvent' = Event(EventTypeString(EventTypeConsoleLog),
                          EventLevelString(EventLevelLog))
    /\ UNCHANGED <<replayVars, inputVars, sinkVars, logger, cfg, padPc, mnkPc, mnkLoop>>

\* stdin is closed: ReadString returns an error and Start returns
StdinEOF ==
    /\ conPc = "read"
    /\ conPc' = "stopped"
    /\ UNCHANGED <<replayVars, inputVars, sinkVars, lastEvent, logger, cfg, padPc, mnkPc, mnkLoop>>

\* GamepadInputListener.Start: select takes case <-ticker.C
PadTick ==
    /\ padPc = "select"
    /\ padPc' = "poll"
    /\ UNCHANGED <<replayVars, inputVars, sinkVars, lastEvent, logger, cfg, conPc, mnkPc, mnkLoop>>

\* glfw.PollEvents() and l.pollJoysticks() return
PadPoll ==
    /\ padPc = "poll"
    /\ padPc' = "select"
    /\ UNCHANGED <<replayVars, inputVars, sinkVars, lastEvent, logger, cfg, conPc, mnkPc, mnkLoop>>

\* GamepadInputListener.Start: select takes case <-ctx.Done()
PadStop ==
    /\ padPc = "select"
    /\ ctxDone
    /\ padPc' = "stopped"
    /\ UNCHANGED <<replayVars, inputVars, sinkVars, lastEvent, logger, cfg, conPc, mnkPc, mnkLoop>>

\* the message loop goroutine of MNKInputListener: GetMessage returns an
\* error or WM_QUIT, and the goroutine closes done
MnkLoopEnd ==
    /\ mnkLoop = "running"
    /\ mnkLoop' = "ended"
    /\ UNCHANGED <<replayVars, inputVars, sinkVars, lastEvent, logger, cfg, conPc, padPc, mnkPc>>

\* MNKInputListener.Start: select takes case <-ctx.Done() or case <-done,
\* and the deferred calls remove the hooks
MnkStop ==
    /\ mnkPc = "wait"
    /\ ctxDone \/ mnkLoop = "ended"
    /\ mnkPc' = "stopped"
    /\ UNCHANGED <<replayVars, inputVars, sinkVars, lastEvent, logger, cfg, conPc, padPc, mnkLoop>>

\* the goroutines that startServices starts with go, before they have run
InitProducers ==
    /\ conPc = "select"
    /\ padPc = "select"
    /\ mnkPc = "wait"
    /\ mnkLoop = "running"
    /\ lastEvent = NoEvent

----------------------------------------------------------------------------
(* Specifications *)

\* the services of startServices
InitServices ==
    /\ firstErr = "nil"
    /\ ctxDone = FALSE
    /\ pollerPc = "create"
    /\ tickPending = FALSE
    /\ fileState = [p \in Paths |-> IF p \in TSFiles THEN "absent" ELSE "fresh"]
    /\ UploadedFiles = [p \in Paths |-> FALSE]
    /\ WG = 0
    /\ tasks = EmptyBag
    /\ evLogger = "open"
    /\ logClosed = FALSE
    /\ healthy = FALSE
    /\ steps = <<>>
    /\ logger = NewLogger
    /\ confirmed = {}
    /\ failedOnce = {}
    /\ lastDone = [path |-> "none", resp |-> "none", dup |-> FALSE]
    /\ logScheduled = FALSE
    /\ session = "none"

\* startServices has returned, for a command line that parseFlags accepts
InitReplay ==
    /\ credsSet \in BOOLEAN
    /\ mainPc = "recStart"
    /\ InitServices
    /\ cfg = [title |-> TRUE, out |-> TRUE, apiId |-> credsSet, apiKey |-> credsSet,
              load |-> FALSE]
    /\ InitProducers

\* main starts MNKInputListener and the synchronous ParquetEventLogger
Init ==
    /\ InitReplay
    /\ InitInput("MNK")
    /\ InitSink("Parquet")

Next ==
    \/ RecStart
    \/ LogRecordingStartedEvent
    \/ RecWait
    \/ Cancel
    \/ CloseEventLogger
    \/ UploadRemaining
    \/ Wait3
    \/ CloseInternalLogger
    \/ UploadLogFile
    \/ Wait6
    \/ Exit
    \/ Tick
    \/ CreateSession
    \/ PollerStop
    \/ PollerTick
    \/ UploadTS
    \/ TaskSign
    \/ TaskPut
    \/ NewSegment
    \/ Age

Spec == Init /\ [][Next]_vars

TypeOK ==
    /\ credsSet \in BOOLEAN
    /\ logger.closed \in BOOLEAN
    /\ logger.file \in {"open", "closed"}
    /\ logger.lines + logger.stderr = logger.writes
    /\ lastEvent.type \in {"none"} \cup {EventTypeString(e) : e \in EventTypes}
    /\ mainPc \in {"parseFlags", "recStart", "logStarted", "recWait", "returned", "exited",
                  "panic"}
                  \cup {ShutdownOrder[i] : i \in 1..Len(ShutdownOrder)}
    /\ ctxDone \in BOOLEAN
    /\ pollerPc \in {"create", "select", "scan", "stopped", "failed"}
    /\ tickPending \in BOOLEAN
    /\ fileState \in [Paths -> {"absent", "fresh", "stable"}]
    /\ UploadedFiles \in [Paths -> BOOLEAN]
    /\ WG \in 0..MaxTasks
    /\ IsABag(tasks)
    /\ Running \subseteq TaskRec
    /\ evLogger \in {"open", "closed"}
    /\ logClosed \in BOOLEAN

\* the session keeps running: FFmpeg neither fails to start nor exits, so
\* main never enters shutdown and the scan loop keeps scanning
Recording == mainPc' \in {"recStart", "logStarted", "recWait"}

LiveNext ==
    /\ Recording
    /\ \/ RecStart
       \/ LogRecordingStartedEvent
       \/ Tick
       \/ CreateSession
       \/ PollerTick
       \/ UploadTS
       \/ TaskSign
       \/ TaskPut
       \/ NewSegment
       \/ Age
       \/ Recover

\* the ticker keeps ticking, and every goroutine that can run is scheduled
LiveSpec ==
    /\ Init
    /\ [][LiveNext]_vars
    /\ WF_vars(Tick)
    /\ WF_vars(PollerTick)
    /\ WF_vars(UploadTS)
    /\ WF_vars(TaskSign)
    /\ WF_vars(TaskPut)

\* the periodic scan while the session records, with every file of the
\* directory ageing
ScanNext ==
    /\ Recording
    /\ \/ RecStart
       \/ LogRecordingStartedEvent
       \/ Tick
       \/ CreateSession
       \/ PollerTick
       \/ UploadTS
       \/ TaskSign
       \/ TaskPut
       \/ NewSegment
       \/ Age
       \/ AgeFile

ScanSpec == Init /\ [][ScanNext]_vars

\* one listener of any of the types, receiving device signals
InputInit ==
    /\ InitReplay
    /\ credsSet
    /\ \E l \in Listeners : InitInput(l)
    /\ InitSink("Parquet")

InputNext ==
    \/ LogEventCall
    \/ CacheRead
    \/ CacheWrite
    \/ MapFault
    \/ Handoff

InputSpec == InputInit /\ [][InputNext]_vars

\* one event sink of any of the types, with its producers and its closers
SinkInit ==
    /\ InitReplay
    /\ credsSet
    /\ InitInput("MNK")
    /\ \E b \in Backends : InitSink(b)

SinkNext ==
    \/ SinkLogEvent
    \/ LoopWrite
    \/ LoopDone
    \/ LoopExit
    \/ SinkClose

SinkSpec == SinkInit /\ [][SinkNext]_vars

\* shutdown 2) with the sink behind it: svcs.eventLogger.Close() runs the
\* Close of the backend, and its error goes to catch
CloseEventSink ==
    /\ mainPc = "closeEventLogger"
    /\ SinkUp
    /\ closeCalls' = closeCalls + 1
    /\ \E ok \in BOOLEAN :
         CASE backend = "NDJSON" -> CloseNDJSON(ok)
           [] backend = "Parquet" -> CloseParquet(ok)
           [] backend = "Arrow" -> CloseArrow(ok)
           [] OTHER -> CloseAsync
    /\ closedOk' = (closedOk \/ closeRet' = "nil")
    /\ evLogger' = IF closeRet' = "nil" THEN "closed" ELSE evLogger
    /\ firstErr' = IF closeRet' = "nil" THEN firstErr ELSE catch("close event logger")
    /\ steps' = Append(steps, mainPc)
    /\ mainPc' = AfterStep(mainPc)
    /\ UNCHANGED <<inputVars, procVars, lastEvent, logger, credsSet, ctxDone, logClosed,
                   pollVars, fileState, uplVars, healthy,
                   backend, stored, ch, loopPc, nLogged, sinkPanic, lastLog>>

\* main from rec.Start to the first join of shutdown, with the event sink of
\* any backend behind the event logger and the upload of the events file
ShipInit ==
    /\ InitReplay
    /\ credsSet
    /\ InitInput("MNK")
    /\ \E b \in Backends : InitSink(b)

ShipNext ==
    \/ RecStart
    \/ LogRecordingStartedEvent
    \/ RecWait
    \/ Cancel
    \/ CloseEventSink
    \/ UploadRemaining
    \/ Wait3
    \/ TaskSign
    \/ TaskPut
    \/ SinkLogEvent
    \/ LoopWrite
    \/ LoopDone
    \/ LoopExit

ShipSpec == ShipInit /\ [][ShipNext]_vars

\* logEvent of every listener type with the ndjson EventLogger behind it,
\* which shutdown closes while the listeners are still running
WarnInit ==
    /\ InitReplay
    /\ credsSet
    /\ \E l \in Listeners : InitInput(l)
    /\ InitSink("NDJSON")

\* the one Close call that shutdown makes on the sink
ShutdownClose == closeCalls = 0 /\ SinkClose

WarnNext ==
    \/ LogEventCall
    \/ CacheRead
    \/ CacheWrite
    \/ MapFault
    \/ Handoff
    \/ ShutdownClose

WarnSpec == WarnInit /\ [][WarnNext]_vars

\* the internal logger under any sequence of Info, Warn, Error and Close
LoggerNext == LoggerWrite \/ LoggerClose

LoggerSpec == Init /\ [][LoggerNext]_vars

\* a session with credentials from start to the return of shutdown, with the
\* counting join of sync.WaitGroup
JoinInit == Init /\ credsSet

\* FFmpeg opens the first segment, in a session that is over before the
\* second one
FirstSegment == fileState[Segments[1]] = "absent" /\ NewSegment

JoinNext ==
    \/ RecStart
    \/ LogRecordingStartedEvent
    \/ RecWait
    \/ Cancel
    \/ CloseEventLogger
    \/ UploadRemaining
    \/ Wait3
    \/ CloseInternalLogger
    \/ UploadLogFile
    \/ Wait6
    \/ Tick
    \/ CreateSession
    \/ PollerStop
    \/ PollerTick
    \/ UploadTS
    \/ TaskSign
    \/ TaskPut
    \/ FirstSegment
    \/ Age
    \/ WGMisuse

\* every HTTP request terminates, every goroutine that can run is scheduled,
\* and a select whose ctx.Done case is ready again and again takes it
JoinSpec ==
    /\ JoinInit
    /\ [][JoinNext]_vars
    /\ WF_vars(TaskSign)
    /\ WF_vars(TaskPut)
    /\ WF_vars(UploadTS)
    /\ SF_vars(PollerStop)
    /\ WF_vars(Wait3)
    /\ WF_vars(Wait6)

\* the process from its command line on
StartInit ==
    /\ cfg \in Cfgs
    /\ credsSet = (cfg.apiId /\ cfg.apiKey)
    /\ mainPc = "parseFlags"
    /\ InitServices
    /\ InitProducers
    /\ InitInput("MNK")
    /\ InitSink("Parquet")

StartNext ==
    \/ ParseFlags
    \/ ScanNext

StartSpec == StartInit /\ [][StartNext]_vars

\* shutdown has not gone past cancel(): the process is still running
Stopping == mainPc' \in {"recStart", "logStarted", "recWait", "cancel", "closeEventLogger"}

StopNext ==
    /\ Stopping
    /\ \/ RecStart
       \/ LogRecordingStartedEvent
       \/ RecWait
       \/ Cancel
       \/ Tick
       \/ CreateSession
       \/ PollerStop
       \/ PollerTick
       \/ UploadTS
       \/ ConSelect
       \/ StdinLine
       \/ StdinEOF
       \/ PadTick
       \/ PadPoll
       \/ PadStop
       \/ MnkLoopEnd
       \/ MnkStop

\* every goroutine that can take a step is scheduled, a select whose
\* ctx.Done() case is ready again and again takes it in the end, and the
\* HTTP request of CreateSession returns; stdin, the ticker and the message
\* loop owe nothing
StopSpec ==
    /\ Init
    /\ [][StopNext]_vars
    /\ WF_vars(CreateSession)
    /\ WF_vars(UploadTS)
    /\ SF_vars(PollerStop)
    /\ WF_vars(ConSelect)
    /\ WF_vars(PadPoll)
    /\ SF_vars(PadStop)
    /\ WF_vars(MnkStop)

----------------------------------------------------------------------------
(* Shutdown order *)

\* position reached in shutdown: number of its statements that have returned
Reached == Len(steps)

TasksOf(origin) == {t \in Running : t.origin = origin}

C2_LogUploadedLast ==
    logScheduled => \A t \in Running : t.path = InternalLogFilePath

\* C3: the log's upload task is never scheduled while an upload started by
\* UploadRemaining is running, and the join after UploadRemaining returns
\* only when all of them have signalled completion
C3_LogAfterRemaining ==
    /\ (logScheduled \/ TasksOf("log") # {}) => TasksOf("remaining") = {}
    /\ mainPc \in {"closeInternalLogger", "UploadLogFile", "wait6", "returned", "exited"}
         => TasksOf("remaining") = {}

\* the log upload is in flight after uploads of UploadRemaining have ended
C3_Witness ==
    /\ TasksOf("log") # {}
    /\ EventsPath \in confirmed \cup failedOnce

\* C4: UploadRemaining never starts an upload of the internal log, whatever
\* the directory holds and whatever is marked uploaded
C4_RemainingSkipsLog ==
    /\ InternalLogFilePath \notin RemainingEligible
    /\ \A t \in TasksOf("remaining") : t.path # InternalLogFilePath

\* UploadRemaining has started uploads while the log exists and is unmarked
C4_Witness ==
    /\ mainPc = "wait3"
    /\ TasksOf("remaining") # {}
    /\ InternalLogFilePath \in WalkDir
    /\ ~isUploaded(InternalLogFilePath)

----------------------------------------------------------------------------
(* Scans and upload tasks *)

\* C5: two upload tasks for the same path are never in flight together
C5_OneTaskPerPath == \A p \in Paths : InFlight(p) <= 1

\* the poller goroutine runs UploadTS in this step
ScanStep == pollerPc = "scan" /\ pollerPc' = "select"

\* C6: after cancel() the scan loop never runs UploadTS
C6_NoScanAfterCancel == [][ctxDone => ~ScanStep]_vars

\* C7: when shutdown has returned and main exits, no upload task is running
C7_AllJoinedAtExit == mainPc = "exited" => tasks = EmptyBag

\* C8: a path is marked uploaded only if an upload task for it got 2xx for
\* the signed-URL GET and then 2xx for the PUT
C8_MarkedOnlyIfConfirmed == \A p \in Paths : UploadedFiles[p] => p \in confirmed

\* a path is marked while another path's upload has failed
C8_Witness ==
    /\ \E p \in Paths : UploadedFiles[p]
    /\ \E p \in Paths : p \in failedOnce /\ ~UploadedFiles[p]

\* an upload task ends in this step with a response other than 2xx
FailStep == NumTasks' < NumTasks /\ lastDone'.resp # "2xx"

\* C9: an upload task that ends on a failed signed-URL GET or PUT (non-2xx,
\* request error, file error) leaves the uploaded-state map as it was, so a
\* path that was unmarked is still unmarked
C9_FailureLeavesUnmarked ==
    [][FailStep => /\ UploadedFiles' = UploadedFiles
                   /\ ~UploadedFiles[lastDone'.path] => ~UploadedFiles'[lastDone'.path]]_vars

\* an upload has just failed on a non-2xx response and its path is unmarked
C9_Witness ==
    /\ lastDone.resp = "non2xx"
    /\ ~UploadedFiles[lastDone.path]
    /\ lastDone.path \in TSFiles

\* C10: every scan schedules again each file whose upload failed and that is
\* still unmarked; and if the endpoint eventually answers 2xx to every
\* request, such a file is eventually marked uploaded
C10_FailedIsRetried ==
    /\ [][ScanStep => \A p \in failedOnce :
            ~UploadedFiles[p] => InFlightIn(tasks', p) > InFlight(p)]_vars
    /\ (<>healthy) => \A p \in TSFiles : (p \in failedOnce) ~> UploadedFiles[p]

\* a file whose upload failed has been scheduled again and is now marked
C10_Witness ==
    /\ \E p \in failedOnce : UploadedFiles[p]
    /\ healthy

----------------------------------------------------------------------------
(* Scan predicates *)

RemainingStep == mainPc = "UploadRemaining" /\ mainPc' = AfterStep("UploadRemaining")

DupStep ==
    /\ NumTasks' < NumTasks
    /\ lastDone'.resp = "2xx"
    /\ UploadedFiles[lastDone'.path]

\* C13: marking a path that is already marked gives the same map, and a
\* second successful completion for a path leaves the map as it was
C13_MarkIdempotent ==
    /\ [](\A p \in Paths : UploadedFiles[p] => markUploaded(p) = UploadedFiles)
    /\ [][DupStep => UploadedFiles' = UploadedFiles]_vars

\* a second upload of a marked path has ended on 2xx
C13_Witness ==
    /\ lastDone.dup
    /\ lastDone.resp = "2xx"
    /\ UploadedFiles[lastDone.path]

----------------------------------------------------------------------------
(* Input normalisation *)

\* a logEvent call has returned
Returned == last.n > 0

\* the call that returned last repeats the value of the call before it on
\* the same level and key, and that call handed an event to the sink
RepeatsEmitted ==
    /\ Returned
    /\ last.before.seen
    /\ last.before.emitted
    /\ last.before.value = last.sig.value

\* C14: of two consecutive digital signals with the same value on one level
\* and key, the second never hands an event to the sink, in every listener
C14_NoRepeatedDigital ==
    (RepeatsEmitted /\ ~last.sig.analog) => ~last.emitted

\* C15: after the first observation of an analog key, an observation emits
\* if and only if its value differs from the last emitted value of that
\* key by at least the listener's threshold
C15_AnalogIffThreshold ==
    (Returned /\ last.sig.analog /\ last.before.seen) =>
       (last.emitted <=>
          Abs(last.sig.value - last.emittedBefore.prev) >= ANALOG_THRESHOLD(listener))

\* C16: the first logEvent call for a level and a non-empty key hands an
\* event to the sink, whatever the value
C16_FirstAlwaysEmits ==
    (Returned /\ last.sig.key # "" /\ ~last.before.seen) => last.emitted

\* the first two calls of the gamepad listener were a released button and
\* an axis position below the threshold, and both emitted
C16_Witness ==
    /\ listener = "Gamepad"
    /\ nCalls = 2
    /\ last.n = 2
    /\ last.sig.analog /\ last.sig.value = 2 /\ last.emitted
    /\ prevObs[<<"JOYPAD", "A">>] = [seen |-> TRUE, value |-> 0, emitted |-> TRUE, failed |-> FALSE]

\* a logEvent call with the empty key is made and returns in this step
EmptyKeyStep == nCalls' = nCalls + 1 /\ last'.n = last.n + 1 /\ last'.sig.key = ""

\* C17: a logEvent call with the empty key hands nothing to the sink and
\* leaves the lastStates map as it was, and no event with an empty Content
\* is ever handed to the sink
C17_EmptyKeyNoOp ==
    /\ [][EmptyKeyStep => UNCHANGED <<lastStates, handed>>]_vars
    /\ [](handed.n > 0 => handed.ev.key # "")

\* a call with the empty key has returned after events were handed over
C17_Witness ==
    /\ Returned
    /\ last.sig.key = ""
    /\ ~last.emitted
    /\ handed.n > 0
    /\ \E id \in Ids(listener) : lastStates[id].ok

\* an event is handed to the sink in this step
HandoffStep == handed'.n = handed.n + 1

\* C18: in a listener with a cache, the map holds the new value when the
\* event is handed to the sink, and a call that repeats the level, key and
\* value of a call that emitted hands nothing to the sink
C18_CachedBeforeHandoff ==
    /\ [][HandoffStep /\ UsesCache(listener) =>
            lastStates[Id(handed'.ev)] = Stored(handed'.ev.value)]_vars
    /\ []((UsesCache(listener) /\ RepeatsEmitted) => ~last.emitted)

\* the worker is at the lookup or at the store of the lastStates map
InCache(w) == calls[w].pc \in {"read", "write"}

\* C19: no two goroutines are at an access of one lastStates map together
C19_CacheSerialized ==
    \A w1 \in Workers(listener) : \A w2 \in Workers(listener) \ {w1} :
       ~(InCache(w1) /\ InCache(w2))

----------------------------------------------------------------------------
(* Event sink Close *)

\* a Close call is made in this step after a Close call has returned nil
RepeatedClose == closeCalls' = closeCalls + 1 /\ closedOk

\* C20: on every backend, a Close call after a successful Close returns
\* nil, does not panic and changes neither the storage nor the file handle
C20_CloseIdempotent ==
    [][RepeatedClose =>
          /\ closeRet' = "nil"
          /\ stored' = stored
          /\ sinkFile' = sinkFile]_vars

----------------------------------------------------------------------------
(* Event sink LogEvent *)

\* C21: LogEvent on the channel backend never waits: whatever the channel
\* holds, whatever the writer goroutine is doing and whether or not Close has
\* been called, a producer's call can be made and returns in that one step
C21_LogEventNeverBlocks ==
    (backend = "Async" /\ SinkUp /\ nLogged < MaxEvents) => ENABLED SinkLogEvent

\* a call has returned that found the channel full after Close, the writer
\* goroutine having exited
C21_Witness ==
    /\ backend = "Async"
    /\ loopPc = "exited"
    /\ lastLog.ret = "nil"
    /\ lastLog.full
    /\ lastLog.closed

\* a producer calls LogEvent of the channel backend in this step
AsyncLogStep == backend = "Async" /\ nLogged' = nLogged + 1

\* C22: on the channel backend a LogEvent call that finds the channel holding
\* its capacity leaves the channel as it was, a call that finds room appends
\* the event at the tail, and the channel never holds more than its capacity
C22_FullQueueDrops ==
    /\ [][AsyncLogStep =>
            ch' = IF Len(ch) = ChanCap THEN ch ELSE Append(ch, nLogged')]_vars
    /\ [](Len(ch) <= ChanCap)

\* the last call found the channel full and its event is not in the channel
C22_Witness ==
    /\ backend = "Async"
    /\ lastLog.full
    /\ Len(ch) = ChanCap
    /\ \A i \in 1..Len(ch) : ch[i] # lastLog.n

\* Close of the channel backend returns nil in this step
AsyncCloseStep ==
    /\ backend = "Async"
    /\ closeCalls' = closeCalls + 1
    /\ closeRet' = "nil"

C24_WrittenInSubmitOrder ==
    /\ \A i \in 1..Len(stored) : stored[i] \in 1..nLogged
    /\ \A i, j \in 1..Len(stored) : i < j => stored[i] < stored[j]

\* the writer goroutine has drained the channel and exited with two or more
\* events written and one submitted event missing from storage
C24_Witness ==
    /\ backend = "Async"
    /\ loopPc = "exited"
    /\ Len(stored) >= 2
    /\ Len(stored) < nLogged

\* C25: no LogEvent call panics, on any backend, before or after Close
C25_LogEventNeverPanics == ~sinkPanic /\ lastLog.ret # "panic"

----------------------------------------------------------------------------
(* Cancellation, session registration and start-up *)

\* every producer and the scan loop have returned
AllStopped ==
    /\ conPc = "stopped"
    /\ padPc = "stopped"
    /\ mnkPc = "stopped"
    /\ pollerPc \in {"stopped", "failed"}

\* C26: once cancel() has been called, the console listener, the gamepad
\* listener, the keyboard and mouse listener and the uploader poller all
\* return, with no further stdin line or device signal needed
C26_AllStopAfterCancel == ctxDone ~> AllStopped

\* an upload started by UploadRemaining ends in this step
RemainingEndStep ==
    /\ NumTasks' < NumTasks
    /\ \E t \in TasksOf("remaining") : CopiesIn(t, tasks') < CopiesIn(t, tasks)

C28_SessionBeforeScan ==
    /\ [][ScanStep => session = "ok"]_vars
    /\ [](session = "failed" => pollerPc = "failed")
    /\ [](pollerPc \in {"select", "scan"} => session = "ok")

\* the session was created and a scan has started an upload
C28_Witness ==
    /\ session = "ok"
    /\ pollerPc = "select"
    /\ \E t \in Running : t.origin = "ts"

\* C29: after CreateSession has failed the process does not start
\* recording and starts no upload
C29_RejectedSessionStops ==
    [][session = "failed" =>
          /\ NumTasks' <= NumTasks
          /\ mainPc' # mainPc => mainPc' \notin {"logStarted", "recWait"}]_vars

\* the flags and credentials that the start-up contract requires
Required(c) == c.title /\ c.out /\ c.apiId /\ c.apiKey

\* C30: with the title, the output directory, the API id or the API key
\* missing, the process exits in parseFlags: it never reaches the recorder,
\* and the poller never runs
C30_MissingRequiredExits ==
    ~Required(cfg) => mainPc \in {"parseFlags", "exited"} /\ pollerPc = "create"

----------------------------------------------------------------------------
(* Start-up order and event fields *)

\* no listener goroutine and no poller goroutine has taken a step
NoneRunning ==
    /\ conPc = "select"
    /\ padPc = "select"
    /\ mnkPc = "wait"
    /\ mnkLoop = "running"
    /\ pollerPc = "create"
    /\ session = "none"
    /\ ~tickPending

\* C31: no producer and no scan loop runs before the recorder has been
\* started: while main has not returned from rec.Start, the listeners and
\* the poller have done nothing
C31_ProducersAfterRecorder == mainPc \in {"parseFlags", "recStart"} => NoneRunning

\* C32: every event built by a producer (an input listener, the console
\* listener, the recorder's RECORDING_STARTED event) has an EventType and an
\* EventLevel that are strings of their enumerations
C32_CanonicalEnumStrings ==
    lastEvent # NoEvent =>
       /\ lastEvent.type \in {EventTypeString(e) : e \in EventTypes}
       /\ lastEvent.level \in {EventLevelString(e) : e \in EventLevels}

----------------------------------------------------------------------------
(* Upload of the events file *)

\* the uploadFile goroutine that UploadRemaining started for the events file
\* has its signed URL and is in putFileToSignedURL, which opens and reads it
EventsFileRead ==
    \E t \in Running : t.path = EventsPath /\ t.origin = "remaining" /\ t.st = "put"

\* C33: for every backend, the upload of the events file that UploadRemaining
\* started reads the file only when every accepted event has been written
\* (none waits in the channel) and the sink has closed its file
C33_EventsFileComplete == EventsFileRead => ch = <<>> /\ sinkFile = "closed"

----------------------------------------------------------------------------
(* Analog drift *)

\* C34: a logEvent call that returns without an event leaves lastStates as
\* it was, and so, in the listeners whose logEvent applies the threshold to
\* every joypad value, a joypad value that has an emitted predecessor is
\* emitted if and only if it is at least the threshold away from the value
\* emitted last, however many suppressed values lie in between
C34_ThresholdFromLastEmitted ==
    /\ [][last'.n = last.n + 1 /\ ~last'.emitted => lastStates' = lastStates]_vars
    /\ [](listener \in {"Gamepad", "GLFW"} /\ last.sig.level = "JOYPAD"
            /\ last.sig.key # "" /\ last.emittedBefore.ok =>
              (last.emitted <=>
                 Abs(last.sig.value - last.emittedBefore.prev)
                    >= ANALOG_THRESHOLD(listener)))

\* a stick drifts from 0 over 2 to 10: the step from 2 to 10 is smaller than
\* the threshold, the distance from the emitted 0 reaches it, and 10 is emitted
C34_Witness ==
    /\ listener = "Gamepad"
    /\ last.sig = Sig("JOYPAD", "LeftStickX", 10, TRUE)
    /\ last.emitted
    /\ last.before = [seen |-> TRUE, value |-> 2, emitted |-> FALSE, failed |-> FALSE]
    /\ last.emittedBefore = Stored(0)

----------------------------------------------------------------------------
(* Signed URL before PUT *)

\* C35: an upload task is in its PUT only once its signed-URL GET has
\* returned 2xx: a step that changes the running tasks and leaves the
\* counter of the join is one in which the getSignedURL of a task returns
\* 2xx and no failure is recorded, and a step in which tasks end (a failed
\* getSignedURL among them) or are started puts no task in its PUT
C35_PutOnlyAfterSigned ==
    [][tasks' # tasks =>
         IF WG' = WG
         THEN /\ failedOnce' = failedOnce
              /\ \E t \in Running : t.st = "sign" /\ AfterSign(t, "2xx")
         ELSE \A t \in BagToSet(tasks') :
                 t.st = "put" => CopiesIn(t, tasks') <= CopiesIn(t, tasks)]_vars

\* the upload of the first segment is in its PUT, and the upload of the
\* second segment has ended on a failure without the file being marked
C35_Witness ==
    /\ \E t \in Running : t.path = Segments[1] /\ t.st = "put"
    /\ lastDone.path = Segments[2]
    /\ lastDone.resp = "reqerr"
    /\ InFlight(Segments[2]) = 0
    /\ ~UploadedFiles[Segments[2]]

----------------------------------------------------------------------------
(* Counting join *)

\* C36: every uploadFile goroutine calls WG.Done exactly once however it
\* ends, so the counter equals the number of running uploads and is never
\* negative, and each WG.Wait of shutdown returns
C36_JoinReturns ==
    /\ [](WG = NumTasks /\ WG >= 0)
    /\ (mainPc = "wait3" ~> Reached >= 4)
    /\ (mainPc = "wait6" ~> mainPc = "returned")

----------------------------------------------------------------------------
(* Missing credentials *)

\* C37: with the API id or the API key empty, UploadTS, UploadRemaining and
\* UploadLogFile start no upload and leave the counter of the join and the
\* uploaded-state map as they were
C37_NoCredsNoUpload ==
    [][~credsSet /\ (\/ ScanStep
                     \/ RemainingStep
                     \/ mainPc = "UploadLogFile" /\ mainPc' = AfterStep("UploadLogFile")) =>
          /\ tasks' = tasks
          /\ WG' = WG
          /\ UploadedFiles' = UploadedFiles]_vars

\* shutdown has run UploadRemaining and UploadLogFile without credentials,
\* with a stable segment, the events file and the log in the directory
C37_Witness ==
    /\ ~credsSet
    /\ Reached = 7
    /\ session = "ok"
    /\ fileState[Segments[1]] = "stable"
    /\ ~isUploaded(Segments[1]) /\ ~isUploaded(EventsPath)
    /\ ~logScheduled

----------------------------------------------------------------------------
(* Errors during shutdown *)

\* svcs.eventLogger.Close() has returned an error
EventCloseFailed == Reached >= 2 /\ evLogger = "open"

----------------------------------------------------------------------------
(* Internal logger after Close *)

\* C39: once Close has been called on the internal logger, a call of Info,
\* Warn or Error leaves the file and its lines as they are and puts one line
\* on the error stream, and a call of Close returns nil and leaves the file
\* as it is
C39_ClosedLoggerInert ==
    [][logger.closed =>
         /\ logger'.closed
         /\ logger'.lines = logger.lines
         /\ logger'.file = logger.file
         /\ logger'.writes = logger.writes + 1 => logger'.stderr = logger.stderr + 1
         /\ logger'.closes = logger.closes + 1 =>
               logger'.ret = "nil" /\ logger'.stderr = logger.stderr]_vars

\* lines were written, the logger was closed, and then a line was logged and
\* Close was called again
C39_Witness ==
    /\ logger.closed
    /\ logger.file = "closed"
    /\ logger.lines = 2
    /\ logger.stderr = 1
    /\ logger.writes = 3
    /\ logger.closes = 2
    /\ logger.ret = "nil"

----------------------------------------------------------------------------
(* LogEvent errors in logEvent *)

\* the call that returned last repeats the value of the call before it on
\* the same level and key, and for that call LogEvent returned an error
RepeatsFailed ==
    /\ Returned
    /\ last.before.seen
    /\ last.before.failed
    /\ last.before.value = last.sig.value

\* C40: in a listener with a cache, when LogEvent returns an error the map
\* holds the new value as logEvent returns, one warning is logged and
\* nothing else changes, and a call that repeats the level, key and value of
\* the failed one hands nothing to the sink
C40_FailedHandoffCached ==
    /\ [][HandoffStep /\ handed'.err /\ UsesCache(listener) =>
            /\ lastStates'[Id(handed'.ev)] = Stored(handed'.ev.value)
            /\ lastStates' = lastStates
            /\ logger' \in {LogLine(logger, "WARN", wok) : wok \in BOOLEAN}]_vars
    /\ []((UsesCache(listener) /\ RepeatsFailed) => ~last.emitted)

====
